---- MODULE Spec2Model ----
(***************************************************************************)
(* Model of backend/app/main.py of prompt2story: the three POST handlers   *)
(* (generate_user_stories, regenerate_story, analyze_design), the prompt   *)
(* they compose, the single completion call they make, the first-'{' to    *)
(* last-'}' extraction of a JSON object from the completion text, the      *)
(* pydantic construction of the response and the mapping of exceptions to  *)
(* HTTP responses.                                                         *)
(*                                                                         *)
(* A Python str is a sequence of symbols.  A symbol is one character       *)
(* ("{", "\"", " ", "a", ...) or, in the short hand-written documents, a   *)
(* whole word such as "user_stories" that stands for a run of letters.     *)
(* Fixed literals of the source (clause texts, placeholder sentences) are  *)
(* one symbol each.  The alphabet holds no digit, no '-', and no word that *)
(* spells a JSON literal, so the only JSON values a text can hold are      *)
(* strings, arrays and objects; there is no backslash, so strings have no  *)
(* escapes.                                                                *)
(***************************************************************************)
EXTENDS Integers, Sequences, FiniteSets, TLC

\* ------------------------------------------------------------ bounds

\* Longest text enumerated exhaustively over Alphabet.
MaxLen == 3

\* ------------------------------------------------------- str helpers

Whitespace == {" ", "\n"}

\* str.find(c): the 0-based index of the first c, or -1.
Find(s, c) ==
  IF \E i \in 1..Len(s) : s[i] = c
  THEN (CHOOSE i \in 1..Len(s) : s[i] = c /\ \A j \in 1..(i - 1) : s[j] # c) - 1
  ELSE -1

\* str.rfind(c): the 0-based index of the last c, or -1.
RFind(s, c) ==
  IF \E i \in 1..Len(s) : s[i] = c
  THEN (CHOOSE i \in 1..Len(s) : s[i] = c /\ \A j \in (i + 1)..Len(s) : s[j] # c) - 1
  ELSE -1

\* s[a:b] for 0 <= a and 0 <= b (Python clips b to len(s)).
Slice(s, a, b) == SubSeq(s, a + 1, IF b > Len(s) THEN Len(s) ELSE b)

\* str.strip(): s without its leading and trailing whitespace.
Strip(s) ==
  IF \A i \in 1..Len(s) : s[i] \in Whitespace
  THEN << >>
  ELSE LET lo == CHOOSE i \in 1..Len(s) :
                   s[i] \notin Whitespace /\ \A j \in 1..(i - 1) : s[j] \in Whitespace
           hi == CHOOSE i \in 1..Len(s) :
                   s[i] \notin Whitespace /\ \A j \in (i + 1)..Len(s) : s[j] \in Whitespace
       IN SubSeq(s, lo, hi)

\* ----------------------------------------------------------- json.loads

\* A JSON value: kind "str" (str holds its symbols), "arr" (items) or
\* "obj" (keys[i] maps to items[i], in insertion order, as a Python dict).
StrVal(s) == [kind |-> "str", str |-> s, keys |-> << >>, items |-> << >>]
ArrVal(items) == [kind |-> "arr", str |-> << >>, keys |-> << >>, items |-> items]
ObjVal(keys, items) == [kind |-> "obj", str |-> << >>, keys |-> keys, items |-> items]

\* The result of a scan: a value and the 1-based position after it, or a
\* JSONDecodeError.
DecodeError == [ok |-> FALSE, val |-> StrVal(<< >>), pos |-> 0]
Decoded(v, p) == [ok |-> TRUE, val |-> v, pos |-> p]

\* The first position >= i that holds no whitespace (Len(s) + 1 at the end).
SkipWs(s, i) ==
  IF \E j \in i..Len(s) : s[j] \notin Whitespace
  THEN CHOOSE j \in i..Len(s) :
         s[j] \notin Whitespace /\ \A k \in i..(j - 1) : s[k] \in Whitespace
  ELSE Len(s) + 1

\* dict[k] = v: a key already present keeps its place and takes the new value.
DictSet(keys, items, k, v) ==
  IF \E i \in 1..Len(keys) : keys[i] = k
  THEN LET i == CHOOSE i \in 1..Len(keys) : keys[i] = k
       IN [keys |-> keys, items |-> [items EXCEPT ![i] = v]]
  ELSE [keys |-> Append(keys, k), items |-> Append(items, v)]

\* py_scanstring from the opening quote at i: up to the next quote.
ScanString(s, i) ==
  IF \E j \in (i + 1)..Len(s) : s[j] = "\""
  THEN LET j == CHOOSE j \in (i + 1)..Len(s) :
                  s[j] = "\"" /\ \A k \in (i + 1)..(j - 1) : s[k] # "\""
       IN Decoded(StrVal(SubSeq(s, i + 1, j - 1)), j + 1)
  ELSE DecodeError

RECURSIVE ScanOnce(_, _), ScanArray(_, _, _), ScanObject(_, _, _, _)

\* scan_once at position i (no whitespace is skipped here).
ScanOnce(s, i) ==
  IF i > Len(s) THEN DecodeError
  ELSE IF s[i] = "\"" THEN ScanString(s, i)
  ELSE IF s[i] = "{" THEN
    LET j == SkipWs(s, i + 1)
    IN IF j <= Len(s) /\ s[j] = "}" THEN Decoded(ObjVal(<< >>, << >>), j + 1)
       ELSE ScanObject(s, j, << >>, << >>)
  ELSE IF s[i] = "[" THEN
    LET j == SkipWs(s, i + 1)
    IN IF j <= Len(s) /\ s[j] = "]" THEN Decoded(ArrVal(<< >>), j + 1)
       ELSE ScanArray(s, j, << >>)
  ELSE DecodeError

\* JSONArray's loop: a value at i, then ',' and another value, or ']'.
ScanArray(s, i, items) ==
  LET r == ScanOnce(s, i)
  IN IF ~r.ok THEN DecodeError
     ELSE LET j == SkipWs(s, r.pos)
              got == Append(items, r.val)
          IN IF j > Len(s) THEN DecodeError
             ELSE IF s[j] = "]" THEN Decoded(ArrVal(got), j + 1)
             ELSE IF s[j] = "," THEN ScanArray(s, SkipWs(s, j + 1), got)
             ELSE DecodeError

\* JSONObject's loop: "key" : value at i, then ',' and another pair, or '}'.
ScanObject(s, i, keys, items) ==
  IF i > Len(s) \/ s[i] # "\"" THEN DecodeError
  ELSE
    LET k == ScanString(s, i)
    IN IF ~k.ok THEN DecodeError
       ELSE
         LET c == SkipWs(s, k.pos)
         IN IF c > Len(s) \/ s[c] # ":" THEN DecodeError
            ELSE
              LET r == ScanOnce(s, SkipWs(s, c + 1))
              IN IF ~r.ok THEN DecodeError
                 ELSE
                   LET j == SkipWs(s, r.pos)
                       d == DictSet(keys, items, k.val.str, r.val)
                   IN IF j > Len(s) THEN DecodeError
                      ELSE IF s[j] = "}" THEN Decoded(ObjVal(d.keys, d.items), j + 1)
                      ELSE IF s[j] = "," THEN ScanObject(s, SkipWs(s, j + 1), d.keys, d.items)
                      ELSE DecodeError

\* json.loads(s): leading whitespace, one value, trailing whitespace, the end.
Loads(s) ==
  LET r == ScanOnce(s, SkipWs(s, 1))
  IN IF r.ok /\ SkipWs(s, r.pos) = Len(s) + 1 THEN r ELSE DecodeError

\* ------------------------------------------------------ pydantic models

HasKey(v, k) == \E i \in 1..Len(v.keys) : v.keys[i] = <<k>>

\* v[k] of a dict that holds k.
Get(v, k) == v.items[CHOOSE i \in 1..Len(v.keys) : v.keys[i] = <<k>>]

\* A required field annotated str.
StrField(v, k) == HasKey(v, k) /\ Get(v, k).kind = "str"

\* A field annotated list[str].
StrListField(v, k) ==
  /\ HasKey(v, k)
  /\ Get(v, k).kind = "arr"
  /\ \A i \in 1..Len(Get(v, k).items) : Get(v, k).items[i].kind = "str"

\* Metadata(**v) validates: five required str fields, persona_other optional.
MetadataValid(v) ==
  /\ v.kind = "obj"
  /\ \A k \in {"priority", "type", "component", "effort", "persona"} : StrField(v, k)
  /\ HasKey(v, "persona_other") => Get(v, "persona_other").kind = "str"

\* The Metadata model built from a valid dict.
MetadataOf(v) ==
  [priority |-> Get(v, "priority").str,
   type |-> Get(v, "type").str,
   component |-> Get(v, "component").str,
   effort |-> Get(v, "effort").str,
   persona |-> Get(v, "persona").str,
   persona_other |-> IF HasKey(v, "persona_other")
                     THEN <<Get(v, "persona_other").str>> ELSE << >>]

\* UserStory(**v) validates; keys the model does not declare are ignored.
UserStoryValid(v) ==
  /\ v.kind = "obj"
  /\ StrField(v, "title")
  /\ StrField(v, "story")
  /\ StrListField(v, "acceptance_criteria")
  /\ HasKey(v, "metadata") => MetadataValid(Get(v, "metadata"))

\* The str items of a list[str] value.
StrItems(a) == [i \in 1..Len(a.items) |-> a.items[i].str]

\* The UserStory model built from a valid dict; metadata is << >> for None.
UserStoryOf(v) ==
  [title |-> Get(v, "title").str,
   story |-> Get(v, "story").str,
   acceptance_criteria |-> StrItems(Get(v, "acceptance_criteria")),
   metadata |-> IF HasKey(v, "metadata")
                THEN <<MetadataOf(Get(v, "metadata"))>> ELSE << >>]

\* GenerationResponse(**v) validates.
GenerationResponseValid(v) ==
  /\ v.kind = "obj"
  /\ HasKey(v, "user_stories")
  /\ Get(v, "user_stories").kind = "arr"
  /\ \A i \in 1..Len(Get(v, "user_stories").items) :
       UserStoryValid(Get(v, "user_stories").items[i])
  /\ StrListField(v, "edge_cases")

\* The GenerationResponse model built from a valid dict.
GenerationResponseOf(v) ==
  [user_stories |-> [i \in 1..Len(Get(v, "user_stories").items) |->
                       UserStoryOf(Get(v, "user_stories").items[i])],
   edge_cases |-> StrItems(Get(v, "edge_cases"))]

\* ------------------------------------------- extraction and placeholders

\* The slice of the completion text at which the handlers cut.
TruncLen == 200

ReviewCriteria == <<"Please review the generated content for specific criteria">>
ReviewEdgeCases == <<"Please review the generated content for edge cases">>

\* ExtractObject parsing the whole text only.
ExtractObjectWholeText(content) ==
  IF Find(content, "{") # -1 /\ RFind(content, "}") + 1 # 0
  THEN Loads(content)
  ELSE DecodeError

\* ExtractObject cutting at the first '}' instead of the last.
ExtractObjectToFirstBrace(content) ==
  LET start_idx == Find(content, "{")
      end_idx == Find(content, "}") + 1
  IN IF start_idx # -1 /\ end_idx # 0
     THEN Loads(Slice(content, start_idx, end_idx))
     ELSE DecodeError

\* The body of the handlers' inner try: the text from the first '{' to the
\* last '}' handed to json.loads; ok is FALSE where the code raises
\* JSONDecodeError or ValueError("No JSON found in response").
ExtractObject(content) ==
  LET start_idx == Find(content, "{")
      end_idx == RFind(content, "}") + 1
  IN IF start_idx # -1 /\ end_idx # 0
     THEN Loads(Slice(content, start_idx, end_idx))
     ELSE DecodeError

\* Excerpt cutting a text of exactly 200 symbols too.
ExcerptFrom200(content) ==
  IF Len(content) >= TruncLen
  THEN Slice(content, 0, TruncLen) \o <<"...">>
  ELSE content

\* content[:200] + "..." if len(content) > 200 else content
Excerpt(content) ==
  IF Len(content) > TruncLen
  THEN Slice(content, 0, TruncLen) \o <<"...">>
  ELSE content

\* The dict the except branch of generate_user_stories and analyze_design
\* builds, with the handler's own title.
PlaceholderResult(title, content) ==
  ObjVal(<< <<"user_stories">>, <<"edge_cases">> >>,
         << ArrVal(<< ObjVal(<< <<"title">>, <<"story">>, <<"acceptance_criteria">> >>,
                             << StrVal(title),
                                StrVal(Excerpt(content)),
                                ArrVal(<<StrVal(ReviewCriteria)>>) >>) >>),
            ArrVal(<<StrVal(ReviewEdgeCases)>>) >>)

\* The local `result` after the inner try of generate_user_stories and
\* analyze_design.
ResultOf(title, content) ==
  LET r == ExtractObject(content)
  IN IF r.ok THEN [parsed |-> TRUE, val |-> r.val]
     ELSE [parsed |-> FALSE, val |-> PlaceholderResult(title, content)]

RegeneratedCriteria ==
  << <<"Given the system is operational, when the user performs the action, then the expected outcome occurs">>,
     <<"Given an error condition, when the user attempts the action, then appropriate error handling is provided">>,
     <<"Given edge case scenarios, when the user interacts with the feature, then the system behaves predictably">> >>

\* PlaceholderStory dropping the metadata.
PlaceholderStoryWithoutMetadata(current_story) ==
  [title |-> <<"Improved: ">> \o current_story.title,
   story |-> current_story.story,
   acceptance_criteria |-> RegeneratedCriteria,
   metadata |-> << >>]

\* The UserStory the except branch of regenerate_story returns.
PlaceholderStory(current_story) ==
  [title |-> <<"Improved: ">> \o current_story.title,
   story |-> current_story.story,
   acceptance_criteria |-> RegeneratedCriteria,
   metadata |-> current_story.metadata]

\* The inner try of regenerate_story: the parsed story, or the placeholder
\* when json.loads fails, a required key is missing, or UserStory(**result)
\* raises its ValidationError (a ValueError).
RegeneratedStory(current_story, content) ==
  LET r == ExtractObject(content)
  IN IF /\ r.ok
        /\ \A key \in {"title", "story", "acceptance_criteria"} : HasKey(r.val, key)
        /\ UserStoryValid(r.val)
     THEN [parsed |-> TRUE, story |-> UserStoryOf(r.val)]
     ELSE [parsed |-> FALSE, story |-> PlaceholderStory(current_story)]

\* ------------------------------------------------------------ exceptions

HTTPException(status_code, detail) ==
  [type |-> "HTTPException", status_code |-> status_code, detail |-> detail, msg |-> << >>]

\* openai.OpenAIError raised by chat.completions.create, with its message.
OpenAIError(msg) ==
  [type |-> "OpenAIError", status_code |-> 0, detail |-> << >>, msg |-> msg]

\* pydantic's ValidationError raised by GenerationResponse(**result).
ValidationError ==
  [type |-> "ValidationError", status_code |-> 0, detail |-> << >>,
   msg |-> <<"validation error for GenerationResponse">>]

\* content.find on a message whose content is None.
AttributeError ==
  [type |-> "AttributeError", status_code |-> 0, detail |-> << >>,
   msg |-> <<"'NoneType' object has no attribute 'find'">>]

\* str(e).  Starlette's HTTPException gained __str__ ("400: detail") in a
\* later release; before it str(e) is empty: http_str says which build runs.
ExcStr(e, http_str) ==
  IF e.type = "HTTPException"
  THEN IF http_str THEN <<ToString(e.status_code), ": ">> \o e.detail ELSE << >>
  ELSE e.msg

\* The two except clauses that close each handler's try: every exception
\* raised inside, an HTTPException included, leaves as an HTTPException 500.
HandlerExcept(e, http_str) ==
  IF e.type = "OpenAIError"
  THEN HTTPException(500, <<"OpenAI API error: ">> \o ExcStr(e, http_str))
  ELSE HTTPException(500, <<"Internal server error: ">> \o ExcStr(e, http_str))

GenericDetail == <<"Internal server error. Check server logs for details.">>

\* The response to an exception that leaves a handler: FastAPI answers an
\* HTTPException with its status and detail, global_exception_handler
\* answers anything else.
ErrorResponse(e) ==
  IF e.type = "HTTPException"
  THEN [status |-> e.status_code, detail |-> e.detail, body |-> << >>]
  ELSE [status |-> 500, detail |-> GenericDetail, body |-> << >>]

\* The response to a returned model.
OkResponse(model) == [status |-> 200, detail |-> << >>, body |-> <<model>>]

\* ---------------------------------------------------------------- prompts

\* load_prompt(): the prompt file's text when it is there, else the default.
LoadPrompt ==
  { <<"prompts/user_story_prompt.md">>,
    <<"You are an expert product manager and business analyst. [...] Return a JSON object with this structure: [...]">> }

\* load_design_prompt(), likewise.
LoadDesignPrompt ==
  { <<"prompts/design_analysis_prompt.md">>,
    <<"Analyze this design mockup and generate user stories based on the UI elements you can identify. [...]">> }

MetadataClause == "\n\nIMPORTANT: Include detailed metadata [...] type (Feature/Bug/Chore/Enhancement) [...]"
EdgeCasesClause == "\n\nEDGE CASES: [...] for each user story."
AdvancedCriteriaClause == "\n\nADVANCED CRITERIA: [...] different states, accessibility, and performance considerations."
ComprehensiveClause == "\n\nCOMPREHENSIVE ANALYSIS: Scan and analyze ALL mentioned components [...]"

DesignMetadataClause == "\n\nIMPORTANT: Include detailed metadata [...] type (Feature/Enhancement/Accessibility) [...]"
DesignEdgeCasesClause == "\n\nEDGE CASES: [...] for each UI element and interaction."
DesignAdvancedCriteriaClause == "\n\nADVANCED CRITERIA: [...] responsive behavior, accessibility, and interaction states."
DesignComprehensiveClause == "\n\nCOMPREHENSIVE UI ANALYSIS: Systematically scan and analyze ALL visible UI components [...]"

\* The clause texts of the text and PDF prompts, and of the image prompt,
\* in the order the handlers append them.
TextClauses == <<MetadataClause, EdgeCasesClause, AdvancedCriteriaClause, ComprehensiveClause>>
DesignClauses == <<DesignMetadataClause, DesignEdgeCasesClause,
                   DesignAdvancedCriteriaClause, DesignComprehensiveClause>>

\* The four options of a request, in the order the handlers test them.
OptionFlags(o) ==
  <<o.include_metadata, o.infer_edge_cases, o.include_advanced_criteria, o.expand_all_components>>

\* AppendClauses appending every clause, whatever the options.
AppendEveryClause(prompt_template, clauses, flags, i) ==
  prompt_template \o clauses

\* prompt_template after the four `if option: prompt_template += clause`.
RECURSIVE AppendClauses(_, _, _, _)
AppendClauses(prompt_template, clauses, flags, i) ==
  IF i > Len(clauses) THEN prompt_template
  ELSE AppendClauses(IF flags[i] THEN Append(prompt_template, clauses[i]) ELSE prompt_template,
                     clauses, flags, i + 1)

TextLabel == "\n\nUnstructured text to analyze:\n"
PdfLabel == "\n\nExtracted text from PDF document to analyze:\n"

\* full_prompt of generate_user_stories and of the PDF branch.
FullPrompt(prompt_template, options, label, payload) ==
  AppendClauses(prompt_template, TextClauses, OptionFlags(options), 1) \o <<label>> \o payload

\* The text part of the image branch's user message.
DesignPrompt(prompt_template, options) ==
  AppendClauses(prompt_template, DesignClauses, OptionFlags(options), 1)

\* ', '.join(items)
RECURSIVE Join(_, _)
Join(items, i) ==
  IF i > Len(items) THEN << >>
  ELSE (IF i > 1 THEN <<",", " ">> ELSE << >>) \o items[i] \o Join(items, i + 1)

\* regeneration_prompt of regenerate_story.
RegenerationPrompt(request_body) ==
  <<"You are a senior Product Owner. [...] ORIGINAL INPUT:\n">> \o request_body.original_input
  \o <<"\n\nCURRENT STORY TO IMPROVE:\nTitle: ">> \o request_body.current_story.title
  \o <<"\nStory: ">> \o request_body.current_story.story
  \o <<"\nAcceptance Criteria: ">> \o Join(request_body.current_story.acceptance_criteria, 1)
  \o <<"\n\nINSTRUCTIONS: [...] Return a JSON object with this structure: [...]">>
  \o (IF request_body.include_metadata THEN <<",\n  \"metadata\": {[...]}">> ELSE << >>)
  \o <<"\n}\n\nFocus on making this story better than the original [...]">>

\* One openai_client.chat.completions.create(...) call: its arguments.
\* image_url is << >> for a text-only user message.
ChatCall(system, prompt, image_url, max_tokens) ==
  [model |-> "gpt-4o", system |-> system, prompt |-> prompt, image_url |-> image_url,
   temperature |-> "0.7", max_tokens |-> max_tokens, response_format |-> "unset"]

AnalystSystem == "You are a senior Product Owner and business analyst. Be thorough and comprehensive in your analysis."
RegenerateSystem == "You are a senior Product Owner focused on creating high-quality, actionable user stories. [...]"
DesignSystem == "You are a senior Product Owner and UX analyst. Be thorough and comprehensive in your design analysis."

\* ------------------------------------------------------ extract_pdf_text

\* page_text + "\n" of every page from i on whose extract_text() neither
\* raises nor returns an empty text.
RECURSIVE PagesText(_, _)
PagesText(pages, i) ==
  IF i > Len(pages) THEN << >>
  ELSE (IF ~pages[i].raises /\ pages[i].text # << >>
        THEN pages[i].text \o <<"\n">> ELSE << >>) \o PagesText(pages, i + 1)

\* extract_pdf_text(file_content), on what PyPDF2 does with the bytes:
\* pdf.reader says whether PdfReader opens them ("ok"), opens them only at
\* the second attempt ("retry") or not at all ("corrupt"), pdf.pages_raise
\* whether walking the pages raises, and pdf.bytesio whether io.BytesIO
\* itself raises.  The result is the text or the HTTPException raised.
ExtractPdfText(pdf) ==
  IF pdf.bytesio # << >>
  THEN [ok |-> FALSE, text |-> << >>,
        exc |-> HTTPException(500, <<"PDF processing error: ">> \o pdf.bytesio)]
  ELSE IF pdf.reader = "corrupt"
  THEN [ok |-> FALSE, text |-> << >>,
        exc |-> HTTPException(400, <<"PDF file appears to be corrupted or in an unsupported format">>)]
  ELSE IF pdf.pages_raise
  THEN [ok |-> FALSE, text |-> << >>,
        exc |-> HTTPException(400, <<"Unable to extract text from PDF pages">>)]
  ELSE IF Strip(PagesText(pdf.pages, 1)) = << >>
  THEN [ok |-> FALSE, text |-> << >>,
        exc |-> HTTPException(400, <<"PDF file appears to be empty or contains no extractable text">>)]
  ELSE [ok |-> TRUE, text |-> Strip(PagesText(pdf.pages, 1)), exc |-> HTTPException(0, << >>)]

\* ------------------------------------------------------------- state

VARIABLES
  handler,     \* "idle", or the handler that served the request
  request,     \* the request it was given
  reply,       \* what the completion service answered (kind "unused" if not called)
  calls,       \* the chat.completions.create calls made, in order
  pdf_calls,   \* the number of extract_pdf_text calls made
  result,      \* << >>, or the handler's local `result` after its inner try
  response     \* the HTTP response

vars == <<handler, request, reply, calls, pdf_calls, result, response>>

\* What a handler leaves behind when exception e leaves its try block.
Raised(e, made, pdfs, res, http_str) ==
  [response |-> ErrorResponse(HandlerExcept(e, http_str)),
   calls |-> made, pdf_calls |-> pdfs, result |-> res]

\* What a handler leaves behind when it returns model.
Returned(model, made, pdfs, res) ==
  [response |-> OkResponse(model), calls |-> made, pdf_calls |-> pdfs, result |-> res]

\* Finish calling the service a second time when the first call raises.
FinishRetrying(title, answer, made, pdfs, http_str) ==
  IF answer.kind = "error"
  THEN Returned(GenerationResponseOf(PlaceholderResult(title, << >>)), made \o made, pdfs, << >>)
  ELSE Raised(AttributeError, made, pdfs, << >>, http_str)

\* The tail generate_user_stories and analyze_design share, from
\* `content = response.choices[0].message.content` to the return.
Finish(title, answer, made, pdfs, http_str) ==
  IF answer.kind = "error" THEN Raised(OpenAIError(answer.err), made, pdfs, << >>, http_str)
  ELSE IF answer.kind = "none" THEN Raised(AttributeError, made, pdfs, << >>, http_str)
  ELSE LET res == ResultOf(title, answer.text)
       IN IF GenerationResponseValid(res.val)
          THEN Returned(GenerationResponseOf(res.val), made, pdfs, <<res>>)
          ELSE Raised(ValidationError, made, pdfs, <<res>>, http_str)

\* generate_user_stories(input_data), the completion service answering
\* `answer` if it is called.
GenerateOutcome(input_data, answer, prompt_template, http_str) ==
  IF Strip(input_data.text) = << >>
  THEN Raised(HTTPException(400, <<"Input text cannot be empty">>), << >>, 0, << >>, http_str)
  ELSE Finish(<<"Generated User Story">>, answer,
              <<ChatCall(AnalystSystem,
                         FullPrompt(prompt_template, input_data, TextLabel, input_data.text),
                         << >>, 4000)>>,
              0, http_str)

\* regenerate_story(request).
RegenerateOutcome(request_body, answer, http_str) ==
  IF Strip(request_body.original_input) = << >>
  THEN Raised(HTTPException(400, <<"Original input cannot be empty">>), << >>, 0, << >>, http_str)
  ELSE LET made == <<ChatCall(RegenerateSystem, RegenerationPrompt(request_body), << >>, 2000)>>
       IN IF answer.kind = "error"
          THEN Raised(OpenAIError(answer.err), made, 0, << >>, http_str)
          ELSE IF answer.kind = "none" THEN Raised(AttributeError, made, 0, << >>, http_str)
          ELSE LET res == RegeneratedStory(request_body.current_story, answer.text)
               IN Returned(res.story, made, 0, <<res>>)

\* str.startswith(prefix)
StartsWith(s, prefix) == Len(s) >= Len(prefix) /\ SubSeq(s, 1, Len(prefix)) = prefix

MaxUploadBytes == 10485760

\* analyze_design(file, options...).  file.content_type is << >> for None
\* and for "", which `not file.content_type` treats alike.
AnalyzeOutcome(file, options, answer, prompt_template, design_template, http_str) ==
  IF \/ file.content_type = << >>
     \/ ~(\/ StartsWith(file.content_type, <<"image/">>)
          \/ StartsWith(file.content_type, <<"application/pdf">>))
  THEN Raised(HTTPException(400, <<"Only image files (PNG, JPG) and PDF files are supported">>),
              << >>, 0, << >>, http_str)
  ELSE IF file.size > MaxUploadBytes
  THEN Raised(HTTPException(400, <<"File size must be less than 10MB">>), << >>, 0, << >>, http_str)
  ELSE IF file.content_type = <<"application/pdf">>
  THEN LET pdf_text == ExtractPdfText(file.pdf)
       IN IF ~pdf_text.ok THEN Raised(pdf_text.exc, << >>, 1, << >>, http_str)
          ELSE IF Strip(pdf_text.text) = << >>
          THEN Raised(HTTPException(400, <<"PDF file appears to be empty or contains no extractable text">>),
                      << >>, 1, << >>, http_str)
          ELSE Finish(<<"Document Analysis Generated">>, answer,
                      <<ChatCall(AnalystSystem,
                                 FullPrompt(prompt_template, options, PdfLabel, pdf_text.text),
                                 << >>, 4000)>>,
                      1, http_str)
  ELSE Finish(<<"Document Analysis Generated">>, answer,
              <<ChatCall(DesignSystem, DesignPrompt(design_template, options),
                         <<[mime |-> file.content_type, base64_of |-> file.size]>>, 4000)>>,
              0, http_str)

\* ------------------------------------------------------------- inputs

Alphabet == {"{", "}", "[", "]", "\"", ":", ",", "a", " "}

\* Every text over Alphabet of at most MaxLen symbols.
ShortTexts == UNION {[1..n -> Alphabet] : n \in 0..MaxLen}

\* n times the symbol c.
Pad(c, n) == [i \in 1..n |-> c]

\* Texts around the 200-symbol cut of the placeholder's excerpt.
LongTexts ==
  {Pad("a", n) : n \in (TruncLen - 1)..(TruncLen + 2)}
    \cup {Pad("a", TruncLen) \o <<"}">>, <<"{">> \o Pad("a", TruncLen),
          Pad("a", TruncLen - 1) \o <<"{", "a">>,
          <<"{">> \o Pad(" ", TruncLen) \o <<"}">>}

\* The Markdown code fence (three backticks, which a TLA+ string cannot
\* hold) as one symbol.
Fence == "~~~"

\* JSON text of a string, a "key": value pair, an array and an object.
JStr(s) == <<"\"">> \o s \o <<"\"">>
JPair(k, v) == JStr(<<k>>) \o <<":">> \o v
RECURSIVE JList(_, _)
JList(items, i) ==
  IF i > Len(items) THEN << >>
  ELSE (IF i > 1 THEN <<",">> ELSE << >>) \o items[i] \o JList(items, i + 1)
JArr(items) == <<"[">> \o JList(items, 1) \o <<"]">>
JObj(pairs) == <<"{">> \o JList(pairs, 1) \o <<"}">>

\* JSON text of a user story with the given acceptance criteria and extra pairs.
StoryDoc(criteria, extra) ==
  JObj(<<JPair("title", JStr(<<"a">>)), JPair("story", JStr(<<"a", " ", "a">>)),
         JPair("acceptance_criteria", criteria)>> \o extra)

MetadataDoc ==
  JObj(<<JPair("priority", JStr(<<"High">>)), JPair("type", JStr(<<"Bug">>)),
         JPair("component", JStr(<<"a">>)), JPair("effort", JStr(<<"a">>)),
         JPair("persona", JStr(<<"Admin">>))>>)

\* JSON text of a generation result.
ResultDoc(stories, edge_cases) ==
  JObj(<<JPair("user_stories", JArr(stories)), JPair("edge_cases", edge_cases)>>)

GoodStory == StoryDoc(JArr(<<JStr(<<"a">>), JStr(<<"a", "a">>)>>), << >>)
GoodResult == ResultDoc(<<GoodStory>>, JArr(<<JStr(<<"a">>)>>))

\* Completion texts as the service returns them: well-formed results and
\* stories, bare or wrapped in prose or in a fenced block, results of the
\* wrong shape, and JSON documents that are no object.
Documents ==
  { GoodResult,
    <<" ", "\n">> \o GoodResult \o <<"\n">>,
    <<"a", " ">> \o GoodResult \o <<" ", "a">>,
    <<Fence, "json", "\n">> \o GoodResult \o <<"\n", Fence>>,
    <<"a", "{", "a", "}", " ", Fence, "\n">> \o GoodResult \o <<"\n", Fence>>,
    <<"a", " ", Fence, "\n">> \o GoodResult \o <<"\n", Fence, " ", "a">>,
    <<"}", "a", Fence, "json", " ">> \o GoodStory \o <<Fence, "a", "{">>,
    <<Fence, "json", "\n">> \o GoodResult \o <<"\n", Fence, " ", "{", "}">>,
    <<Fence, "\n">> \o GoodResult \o <<"\n", Fence, "a", "}">>,
    ResultDoc(<< >>, JArr(<< >>)),
    ResultDoc(<<StoryDoc(JArr(<< >>), << >>)>>, JArr(<< >>)),
    ResultDoc(<<StoryDoc(JArr(<<JStr(<<"a">>)>>), <<JPair("metadata", MetadataDoc)>>)>>, JArr(<< >>)),
    ResultDoc(<<StoryDoc(JArr(<<JStr(<<"a">>)>>), <<JPair("metadata", JObj(<< >>))>>)>>, JArr(<< >>)),
    ResultDoc(<<StoryDoc(JStr(<<"a">>), << >>)>>, JArr(<< >>)),
    ResultDoc(<<JStr(<<"a">>)>>, JArr(<< >>)),
    JObj(<<JPair("user_stories", JArr(<<GoodStory>>))>>),
    JObj(<<JPair("edge_cases", JArr(<< >>))>>),
    JObj(<<JPair("user_stories", JObj(<< >>)), JPair("edge_cases", JArr(<< >>))>>),
    GoodStory,
    <<"a", ":", " ">> \o GoodStory \o <<" ", "a">>,
    StoryDoc(JArr(<< >>), << >>),
    StoryDoc(JArr(<<JStr(<<"a">>)>>), <<JPair("metadata", MetadataDoc)>>),
    StoryDoc(JArr(<<JArr(<< >>)>>), << >>),
    JObj(<<JPair("title", JStr(<<"a">>)), JPair("story", JStr(<<"a">>))>>),
    JArr(<<GoodResult>>),
    JArr(<<GoodStory, GoodStory>>),
    JStr(<<"a", "{", "}">>),
    GoodResult \o GoodResult,
    <<"no object here">> }

\* What the completion service does with a call: it returns a text, returns
\* a message without content, or raises an OpenAIError with some message.
TextAnswer(t) == [kind |-> "text", text |-> t, err |-> << >>]
Unused == [kind |-> "unused", text |-> << >>, err |-> << >>]
FewAnswers ==
  { TextAnswer(GoodResult), TextAnswer(GoodStory), TextAnswer(<<"no object here">>),
    [kind |-> "none", text |-> << >>, err |-> << >>],
    [kind |-> "error", text |-> << >>, err |-> <<"Incorrect API key provided: sk-a">>],
    [kind |-> "error", text |-> << >>, err |-> <<"Rate limit reached">>] }
Answers == FewAnswers \cup {TextAnswer(t) : t \in ShortTexts \cup LongTexts \cup Documents}

RequestTexts == { << >>, <<" ">>, <<"\n", " ">>, <<"a">>, <<" ", "a", "\n">> }

Options ==
  [include_metadata : BOOLEAN, infer_edge_cases : BOOLEAN,
   include_advanced_criteria : BOOLEAN, expand_all_components : BOOLEAN]

\* The defaults of TextInput and of analyze_design's Form fields.
DefaultOptions ==
  [include_metadata |-> FALSE, infer_edge_cases |-> TRUE,
   include_advanced_criteria |-> TRUE, expand_all_components |-> TRUE]

\* TextInput bodies.
TextInputs ==
  {[text |-> t, include_metadata |-> o.include_metadata, infer_edge_cases |-> o.infer_edge_cases,
    include_advanced_criteria |-> o.include_advanced_criteria,
    expand_all_components |-> o.expand_all_components] : t \in RequestTexts, o \in Options}

SomeMetadata ==
  [priority |-> <<"High">>, type |-> <<"Bug">>, component |-> <<"a">>, effort |-> <<"a">>,
   persona |-> <<"Other">>, persona_other |-> << <<"a">> >>]

\* UserStory values a client sends as current_story.
CurrentStories ==
  [title : {<<"a">>, << >>}, story : {<<"a", " ", "a">>},
   acceptance_criteria : {<< >>, << <<"a">>, <<"a", "a">> >>},
   metadata : {<< >>, <<SomeMetadata>>, <<[SomeMetadata EXCEPT !.persona_other = << >>]>>}]

\* RegenerateRequest bodies.
RegenerateRequests ==
  [original_input : RequestTexts, current_story : CurrentStories, include_metadata : BOOLEAN]

ContentTypes ==
  { << >>, <<"image/", "png">>, <<"image/", "jpeg">>, <<"application/pdf">>,
    <<"application/pdf", "; charset=binary">>, <<"text/", "plain">>, <<"application/", "json">> }

GoodPdf ==
  [bytesio |-> << >>, reader |-> "ok", pages_raise |-> FALSE,
   pages |-> <<[raises |-> FALSE, text |-> <<"a", " ", "a">>]>>]

\* What PyPDF2 makes of an uploaded file's bytes.
Pdfs ==
  { GoodPdf,
    [GoodPdf EXCEPT !.reader = "retry"],
    [GoodPdf EXCEPT !.reader = "corrupt"],
    [GoodPdf EXCEPT !.pages_raise = TRUE],
    [GoodPdf EXCEPT !.bytesio = <<"MemoryError">>],
    [GoodPdf EXCEPT !.pages = << >>],
    [GoodPdf EXCEPT !.pages = <<[raises |-> FALSE, text |-> <<" ">>], [raises |-> FALSE, text |-> << >>]>>],
    [GoodPdf EXCEPT !.pages = <<[raises |-> TRUE, text |-> <<"a">>], [raises |-> FALSE, text |-> <<" ", "a">>]>>] }

FileSizes == {0, 1, MaxUploadBytes - 1, MaxUploadBytes, MaxUploadBytes + 1, 15 * 1024 * 1024}

\* Uploaded files; what PyPDF2 would make of the bytes is varied only for
\* the files that are handed to it.
Files ==
  {f \in [content_type : ContentTypes, size : FileSizes, pdf : Pdfs] :
     f.content_type = <<"application/pdf">> \/ f.pdf = GoodPdf}

\* The requests and answers explored: every request with a few answers, and
\* every answer with a few requests.
DefaultInput ==
  [text |-> <<" ", "a", "\n">>, include_metadata |-> FALSE, infer_edge_cases |-> TRUE,
   include_advanced_criteria |-> TRUE, expand_all_components |-> TRUE]
GenerateRuns == (TextInputs \X FewAnswers) \cup ({DefaultInput} \X Answers)

FewRegenerateRequests ==
  {r \in RegenerateRequests :
     /\ r.original_input = <<"a">>
     /\ r.current_story.title = <<"a">>
     /\ r.current_story.acceptance_criteria = << >>
     /\ r.current_story.metadata # << >>
     /\ ~r.include_metadata}
RegenerateRuns ==
  (RegenerateRequests \X FewAnswers) \cup (FewRegenerateRequests \X Answers)

FewFiles ==
  {f \in Files : /\ f.content_type \in {<<"image/", "png">>, <<"application/pdf">>}
                 /\ f.size = 1
                 /\ f.pdf = GoodPdf}
AnalyzeRuns ==
  (Files \X {DefaultOptions} \X FewAnswers)
    \cup (FewFiles \X Options \X FewAnswers)
    \cup (FewFiles \X {DefaultOptions} \X Answers)

\* ------------------------------------------------------------ actions

Init ==
  /\ handler = "idle"
  /\ request = << >>
  /\ reply = Unused
  /\ calls = << >>
  /\ pdf_calls = 0
  /\ result = << >>
  /\ response = [status |-> 0, detail |-> << >>, body |-> << >>]

\* What every handler does to the state: out is its outcome.  The answer
\* of the completion service is recorded only if the service was called.
Serve(name, body, answer, out) ==
  /\ handler' = name
  /\ request' = body
  /\ reply' = IF out.calls = << >> THEN Unused ELSE answer
  /\ calls' = out.calls
  /\ pdf_calls' = out.pdf_calls
  /\ result' = out.result
  /\ response' = out.response

\* GET /healthz
Healthz ==
  /\ handler = "idle"
  /\ Serve("healthz", << >>, Unused,
           Returned([status |-> "ok"], << >>, 0, << >>))

\* POST /generate-user-stories
GenerateUserStories ==
  /\ handler = "idle"
  /\ \E run \in GenerateRuns, prompt_template \in LoadPrompt, http_str \in BOOLEAN :
       Serve("generate_user_stories", run[1], run[2],
             GenerateOutcome(run[1], run[2], prompt_template, http_str))

\* POST /regenerate-story
RegenerateStory ==
  /\ handler = "idle"
  /\ \E run \in RegenerateRuns, http_str \in BOOLEAN :
       Serve("regenerate_story", run[1], run[2],
             RegenerateOutcome(run[1], run[2], http_str))

\* POST /analyze-design
AnalyzeDesign ==
  /\ handler = "idle"
  /\ \E run \in AnalyzeRuns, prompt_template \in LoadPrompt,
        design_template \in LoadDesignPrompt, http_str \in BOOLEAN :
       Serve("analyze_design", [file |-> run[1], options |-> run[2]], run[3],
             AnalyzeOutcome(run[1], run[2], run[3], prompt_template, design_template, http_str))

Next == Healthz \/ GenerateUserStories \/ RegenerateStory \/ AnalyzeDesign

Spec == Init /\ [][Next]_vars

\* ------------------------------------------------------------- claims

Blank(s) == \A i \in 1..Len(s) : s[i] \in Whitespace

\* No slice of t is the JSON text of an object.
NoObjectIn(t) ==
  \A i \in 1..Len(t) : \A j \in i..Len(t) :
    (t[i] = "{" /\ t[j] = "}") => ~Loads(SubSeq(t, i, j)).ok

\* The first n symbols of t.
Prefix(t, n) == [i \in 1..n |-> t[i]]

\* The position of symbol c in prompt p (0 when p does not hold it).
Position(p, c) ==
  IF \E k \in 1..Len(p) : p[k] = c THEN CHOOSE k \in 1..Len(p) : p[k] = c ELSE 0

\* C1: in generate-user-stories and regenerate-story, a text (original_input)
\* that is empty or all whitespace is answered 400, and no completion call
\* is made for the request.
C1_BlankInputIs400 ==
  /\ (handler = "generate_user_stories" /\ Blank(request.text))
       => (response.status = 400 /\ calls = << >>)
  /\ (handler = "regenerate_story" /\ Blank(request.original_input))
       => (response.status = 400 /\ calls = << >>)

\* The content types POST /analyze-design supports: image/* and application/pdf.
Supported(content_type) ==
  \/ (Len(content_type) >= 1 /\ content_type[1] = "image/")
  \/ content_type = <<"application/pdf">>

\* C2: in analyze-design, a file of an unsupported or missing content type,
\* or of more than 10MB, is answered 400, and neither the PDF text
\* extraction nor a completion call is made for the request.
C2_BadFileIs400 ==
  (/\ handler = "analyze_design"
   /\ (~Supported(request.file.content_type) \/ request.file.size > 10 * 1024 * 1024))
    => (response.status = 400 /\ pdf_calls = 0 /\ calls = << >>)

\* C3: in generate-user-stories and analyze-design, whatever text the
\* completion service returns, the response is 200 with a GenerationResult
\* (the parsed one or the placeholder), never an error response.
C3_AnyTextIsAnswered200 ==
  (/\ handler \in {"generate_user_stories", "analyze_design"}
   /\ reply.kind = "text")
    => (/\ response.status = 200
        /\ Len(response.body) = 1
        /\ DOMAIN response.body[1] = {"user_stories", "edge_cases"})

\* C4: when no object can be extracted from the completion text t, the
\* response is 200 with a placeholder of exactly one user story and one edge
\* case, both the fixed review sentences, whose story is t when
\* len(t) <= 200 and the first 200 symbols of t followed by "..." otherwise.
C4_PlaceholderOnExtractionFailure ==
  (/\ handler \in {"generate_user_stories", "analyze_design"}
   /\ reply.kind = "text"
   /\ (NoObjectIn(reply.text) \/ ~result[1].parsed))
    => (/\ response.status = 200
        /\ Len(response.body[1].user_stories) = 1
        /\ response.body[1].edge_cases =
             << <<"Please review the generated content for edge cases">> >>
        /\ response.body[1].user_stories[1].acceptance_criteria =
             << <<"Please review the generated content for specific criteria">> >>
        /\ response.body[1].user_stories[1].story =
             IF Len(reply.text) <= 200 THEN reply.text
             ELSE Prefix(reply.text, 200) \o <<"...">>)

\* C4's case: a text of more than 200 symbols without an object was answered.
C4_Witness ==
  /\ handler = "generate_user_stories"
  /\ reply.kind = "text"
  /\ Len(reply.text) > 200
  /\ NoObjectIn(reply.text)
  /\ response.status = 200

\* C5: in regenerate-story with a non-blank original_input, when the
\* completion text is unparseable or the recovered object lacks title, story
\* or acceptance_criteria, the story returned keeps the request's
\* current_story.metadata, is titled "Improved: " + the current title and
\* holds exactly the three fixed acceptance criteria.
C5_RegeneratePlaceholderKeepsMetadata ==
  (/\ handler = "regenerate_story"
   /\ ~Blank(request.original_input)
   /\ reply.kind = "text"
   /\ \/ NoObjectIn(reply.text)
      \/ ~ExtractObject(reply.text).ok
      \/ \E key \in {"title", "story", "acceptance_criteria"} :
           ~HasKey(ExtractObject(reply.text).val, key))
    => (/\ response.status = 200
        /\ response.body[1].metadata = request.current_story.metadata
        /\ response.body[1].title = <<"Improved: ">> \o request.current_story.title
        /\ Len(response.body[1].acceptance_criteria) = 3
        /\ response.body[1].acceptance_criteria = RegeneratedCriteria)

\* C5's case: an unparseable completion for a story that carries metadata.
C5_Witness ==
  /\ handler = "regenerate_story"
  /\ reply.kind = "text"
  /\ NoObjectIn(reply.text)
  /\ request.current_story.metadata # << >>
  /\ response.status = 200
  /\ response.body[1].metadata = request.current_story.metadata

C8_PromptComposition ==
  (handler \in {"generate_user_stories", "analyze_design"} /\ calls # << >>)
    => LET p == calls[1].prompt
           image == calls[1].image_url # << >>
           options == IF handler = "generate_user_stories" THEN request ELSE request.options
           set == <<options.include_metadata, options.infer_edge_cases,
                    options.include_advanced_criteria, options.expand_all_components>>
           clause == IF image
                     THEN <<DesignMetadataClause, DesignEdgeCasesClause,
                            DesignAdvancedCriteriaClause, DesignComprehensiveClause>>
                     ELSE <<MetadataClause, EdgeCasesClause,
                            AdvancedCriteriaClause, ComprehensiveClause>>
           label == IF handler = "generate_user_stories" THEN TextLabel ELSE PdfLabel
           payload == IF handler = "generate_user_stories" THEN request.text
                      ELSE ExtractPdfText(request.file.pdf).text
           count == Cardinality({i \in 1..4 : set[i]})
       IN /\ \A i \in 1..4 : (Position(p, clause[i]) # 0) <=> set[i]
          /\ \A i \in 1..4 : Cardinality({k \in 1..Len(p) : p[k] = clause[i]}) <= 1
          /\ \A i \in 1..4 : \A j \in 1..4 :
               (i < j /\ set[i] /\ set[j]) => Position(p, clause[i]) < Position(p, clause[j])
          /\ <<p[1]>> \in (IF image THEN LoadDesignPrompt ELSE LoadPrompt)
          /\ \A i \in 1..4 : set[i] => Position(p, clause[i]) \in 2..(count + 1)
          /\ IF image THEN Len(p) = count + 1
             ELSE /\ Position(p, label) = count + 2
                  /\ SubSeq(p, count + 3, Len(p)) = payload

\* C8's case: a prompt composed with some options set and others not.
C8_Witness ==
  /\ handler = "analyze_design"
  /\ calls # << >>
  /\ request.options.include_metadata
  /\ ~request.options.infer_edge_cases
  /\ request.options.expand_all_components
  /\ request.file.content_type = <<"application/pdf">>

\* C9: a 500 response to a failure that is not a validation failure (the
\* request reached the completion service, or the PDF reader crashed)
\* carries the fixed generic message, whatever the underlying error was.
C9_GenericErrorBody ==
  (/\ response.status = 500
   /\ \/ calls # << >>
      \/ (handler = "analyze_design" /\ pdf_calls = 1 /\ request.file.pdf.bytesio # << >>))
    => response.detail = <<"Internal server error. Check server logs for details.">>

\* C10: every user story of a 200 response of the three POST handlers has
\* at least one acceptance criterion.
C10_StoriesHaveCriteria ==
  /\ (handler \in {"generate_user_stories", "analyze_design"} /\ response.status = 200)
       => \A i \in 1..Len(response.body[1].user_stories) :
            Len(response.body[1].user_stories[i].acceptance_criteria) >= 1
  /\ (handler = "regenerate_story" /\ response.status = 200)
       => Len(response.body[1].acceptance_criteria) >= 1

\* The positions of the first fence of t and of the fence that closes it
\* (0 when t holds no such pair).
FenceOpen(t) == Find(t, Fence) + 1
FenceClose(t) ==
  IF \E j \in (FenceOpen(t) + 1)..Len(t) : FenceOpen(t) # 0 /\ t[j] = Fence
  THEN CHOOSE j \in (FenceOpen(t) + 1)..Len(t) :
         t[j] = Fence /\ \A k \in (FenceOpen(t) + 1)..(j - 1) : t[k] # Fence
  ELSE 0

\* The fenced-block parse the specification describes: the contents of the
\* first fenced block of t, without the optional "json" tag, parsed as an
\* object.
FencedBlock(t) ==
  IF FenceClose(t) = 0 THEN DecodeError
  ELSE LET inside == SubSeq(t, FenceOpen(t) + 1, FenceClose(t) - 1)
           body == IF inside # << >> /\ inside[1] = "json" THEN Tail(inside) ELSE inside
           r == Loads(body)
       IN IF r.ok /\ r.val.kind = "obj" THEN r ELSE DecodeError

\* The three strategies of the specification in their order: the whole
\* text, the fenced block, the first '{' to the last '}'.
FirstStrategy(t) ==
  IF Loads(t).ok THEN Loads(t)
  ELSE IF FencedBlock(t).ok THEN FencedBlock(t)
  ELSE IF \E i \in 1..Len(t) : \E j \in 1..Len(t) :
            /\ t[i] = "{" /\ \A k \in 1..(i - 1) : t[k] # "{"
            /\ t[j] = "}" /\ \A k \in (j + 1)..Len(t) : t[k] # "}"
            /\ Loads(SubSeq(t, i, j)).ok
       THEN Loads(SubSeq(t, CHOOSE i \in 1..Len(t) : t[i] = "{" /\ \A k \in 1..(i - 1) : t[k] # "{",
                         CHOOSE j \in 1..Len(t) : t[j] = "}" /\ \A k \in (j + 1)..Len(t) : t[k] # "}"))
       ELSE DecodeError

C12_FileRouting ==
  handler = "analyze_design"
    => LET content_type == request.file.content_type
           is_image == Len(content_type) >= 1 /\ content_type[1] = "image/"
           accepted == pdf_calls > 0 \/ calls # << >>
       IN /\ accepted => (is_image \/ content_type = <<"application/pdf">>)
          /\ \A i \in 1..Len(calls) : calls[i].image_url # << >> => is_image
          /\ (accepted /\ ~is_image) => pdf_calls = 1

====
